---- MODULE Spec2Model ----
(***************************************************************************)
(* Exception normalization layer of nest-ms-template.                      *)
(*                                                                         *)
(* Two exception filters are modelled:                                     *)
(*   "HttpOnly"  src/src/filters/exception.filter.ts (request/response),   *)
(*   "Combined"  src/unnamed/part_001 lines 55-158 (request/response and   *)
(*               message-based, chosen by host.getType()).                 *)
(* A third, older filter, "Legacy" (src/unnamed/part_001 lines 165-212),   *)
(* joins them under SpecAll.                                               *)
(* One invocation of catch is one action; what it does (log entries, the   *)
(* response written, the exception thrown) is recorded in order in trace.  *)
(***************************************************************************)
EXTENDS Integers, Sequences, FiniteSets

(* ------------------------------ bounds --------------------------------- *)
\* longest array of validation messages carried by a failure
MaxMsgs == 2
\* the clock read by new Date() runs over 0..MaxClock
MaxClock == 2
\* how many times a delivered error is fed back into the filter
MaxPasses == 2

\* longest array of keys handed to exclude
MaxKeys == 2
\* how many times in a row a helper is called on one object
MaxCalls == 2

(* ------------------------- program constants --------------------------- *)
BAD_REQUEST == 400
FORBIDDEN == 403
INTERNAL_SERVER_ERROR == 500

(* --------------------------- JavaScript values ------------------------- *)
\* A JavaScript value that can sit in a message / error / errors position:
\* undefined, a string, or an array of such values.
Undef == [t |-> "undefined", s |-> "", a |-> <<>>]
Str(s) == [t |-> "string", s |-> s, a |-> <<>>]
Arr(items) == [t |-> "array", s |-> "", a |-> items]

\* an object in a message position (the error object of an RpcException)
ObjVal(o) == [t |-> "object", s |-> "", a |-> <<>>, o |-> o]

\* ToBoolean, as used by the || operator
Truthy(v) == CASE v.t = "undefined" -> FALSE
               [] v.t = "string" -> v.s # ""
               [] OTHER -> TRUE

\* a || b
OrElse(a, b) == IF Truthy(a) THEN a ELSE b

\* Array.isArray(v)
IsArray(v) == v.t = "array"

\* typeof v === 'string'
IsString(v) == v.t = "string"

\* obj.key, undefined when the object has no such property
Prop(obj, key) == IF key \in DOMAIN obj THEN obj[key] ELSE Undef

\* A value that getResponse() / getError() returns: a string or an object.
StringBody(s) == [t |-> "string", s |-> s, obj |-> [message |-> Undef]]
ObjectBody(o) == [t |-> "object", s |-> "", obj |-> o]

(* ---------------------------- failure values --------------------------- *)
\* the texts failures are built from
Texts == {"", "Resource disabled", "This is a test error"}
NonEmptyTexts == Texts \ {""}
ValidationTexts == {"The test field must not be empty", "The test field must be at least 5 characters long"}
Stacks == {"at a.ts:1", "at b.ts:2"}
Labels == {"", "Bad Request"}
Statuses == {BAD_REQUEST, FORBIDDEN, 404}

SeqsUpTo(S, n) == UNION {[1..k -> S] : k \in 0..n}

\* arrays of validation messages, the empty one included
MessageArrays == {Arr([i \in DOMAIN q |-> Str(q[i])]) : q \in SeqsUpTo(ValidationTexts, MaxMsgs)}

HttpClasses == {"HttpException", "BadRequestException", "DisabledException"}
RpcClasses == {"RpcException", "CustomException"}

\* instanceof, along the class hierarchy
\*   Error > HttpException > {BadRequestException, DisabledException}
\*   Error > RpcException > CustomException
IsHttpException(e) == e.cls \in HttpClasses
IsBadRequestException(e) == e.cls = "BadRequestException"
\* instanceof tested against CustomException where RpcException is meant
IsRpcExceptionCustomOnly(e) == e.cls = "CustomException"
IsRpcException(e) == e.cls \in RpcClasses
IsCustomException(e) == e.cls = "CustomException"
IsError(e) == e.cls = "Error" \/ IsHttpException(e) \/ IsRpcException(e)

\* the words of a class name, the message an exception gets when its body has none
ClassWords(cls) == CASE cls = "HttpException" -> "Http Exception"
                     [] cls = "BadRequestException" -> "Bad Request Exception"
                     [] cls = "DisabledException" -> "Disabled Exception"
                     [] cls = "RpcException" -> "Rpc Exception"
                     [] cls = "CustomException" -> "Custom Exception"
                     [] OTHER -> "Error"

\* exception.message of an exception built over body: the body itself when it is
\* a string, its message when that is a string, else the words of the class name
InitMessage(cls, body) ==
    IF body.t = "string" THEN body.s
    ELSE IF IsString(Prop(body.obj, "message")) THEN Prop(body.obj, "message").s
    ELSE ClassWords(cls)

\* new HttpException(response, status) and its subclasses; name is the class name
HttpExceptionOf(cls, response, status, stack) ==
    [cls |-> cls, name |-> cls, status |-> status, response |-> response,
     message |-> InitMessage(cls, response), stack |-> stack]

\* new RpcException(error); name stays "Error"
RpcExceptionOf(cls, error, stack) ==
    [cls |-> cls, name |-> "Error", error |-> error,
     message |-> InitMessage(cls, error), stack |-> stack]

\* new CustomException(message, status): super({ message, status })
CustomException(message, status, stack) ==
    RpcExceptionOf("CustomException", ObjectBody([message |-> Str(message), status |-> status]), stack)

\* CustomExceptionDefault with FORBIDDEN as the default status
CustomExceptionDefaultForbidden(message, stack) == CustomException(message, FORBIDDEN, stack)

\* new CustomException(message): status defaults to BAD_REQUEST
CustomExceptionDefault(message, stack) == CustomException(message, BAD_REQUEST, stack)

\* new DisabledException({ message }): super(message || 'Resource is not available', FORBIDDEN)
DisabledException(message, stack) ==
    HttpExceptionOf("DisabledException",
                    StringBody(OrElse(message, Str("Resource is not available")).s),
                    FORBIDDEN, stack)

\* new Error(message)
ErrorOf(message, stack) == [cls |-> "Error", name |-> "Error", message |-> message, stack |-> stack]

\* thrown values that are no Error: null, undefined, a string, a symbol, a plain
\* object, an object that refers to itself
NonErrorKinds == {"Null", "Undefined", "String", "Symbol", "Object", "Cyclic"}
NonErrorOf(kind, text) == [cls |-> kind, name |-> "", message |-> text, stack |-> ""]

\* the bodies an HttpException is thrown with
HttpBodies ==
    {StringBody(s) : s \in Texts}
    \cup {ObjectBody([message |-> m, error |-> l]) :
            m \in {Undef} \cup {Str(s) : s \in Texts} \cup MessageArrays,
            l \in {Undef} \cup {Str(s) : s \in Labels}}

UnclassifiedFailures ==
    {ErrorOf(m, st) : m \in Texts, st \in Stacks}
    \cup {NonErrorOf(k, "") : k \in NonErrorKinds \ {"String"}}
    \cup {NonErrorOf("String", m) : m \in NonEmptyTexts}

DomainFailures ==
    {CustomException(m, s, "at a.ts:1") : m \in Texts, s \in Statuses}
    \cup {CustomExceptionDefault(m, "at a.ts:1") : m \in Texts}
    \cup {DisabledException(m, "at a.ts:1") : m \in {Undef} \cup {Str(s) : s \in Texts}}

\* new HttpException(body, status), and new BadRequestException(...), whose
\* status is BAD_REQUEST and whose body is always an object
HttpFailures ==
    {HttpExceptionOf("HttpException", b, s, "at a.ts:1") : b \in HttpBodies, s \in {BAD_REQUEST, 404}}
    \cup {HttpExceptionOf("BadRequestException", b, BAD_REQUEST, "at a.ts:1") :
            b \in {x \in HttpBodies : x.t = "object"}}

\* new RpcException(error), over a string or over an object
RpcFailures ==
    {RpcExceptionOf("RpcException", StringBody(m), "at a.ts:1") : m \in NonEmptyTexts}
    \cup {RpcExceptionOf("RpcException", ObjectBody([message |-> Str(m)]), "at a.ts:1") : m \in NonEmptyTexts}

(* ------------------------- conversions to text ------------------------- *)
\* Texts are kept as sequences of pieces, to be read as their concatenation.
RECURSIVE JoinPieces(_, _)
JoinPieces(seqs, sep) ==
    IF seqs = <<>> THEN <<>>
    ELSE IF Len(seqs) = 1 THEN Head(seqs)
    ELSE Head(seqs) \o <<sep>> \o JoinPieces(Tail(seqs), sep)

\* JSON.stringify(v) inside a template literal, for a message value
RECURSIVE JsonStringify(_)
JsonStringify(v) ==
    CASE v.t = "undefined" -> <<"undefined">>
      [] v.t = "string" -> <<"\"", v.s, "\"">>
      [] OTHER -> <<"[">> \o JoinPieces([i \in DOMAIN v.a |-> JsonStringify(v.a[i])], ",") \o <<"]">>

\* `${status}`: a number in decimal
Digits == <<"0", "1", "2", "3", "4", "5", "6", "7", "8", "9">>
RECURSIVE Decimal(_)
Decimal(n) == IF n < 10 THEN <<Digits[n + 1]>> ELSE Decimal(n \div 10) \o <<Digits[(n % 10) + 1]>>

\* the keys of a response / error object in the order they were written: those
\* of a body the HTTP-only filter wrote, of a payload the combined filter built,
\* or of the object a failure was constructed over
MemberKeys(o) ==
    IF "path" \in DOMAIN o THEN <<"statusCode", "timestamp", "path", "method", "message", "errors">>
    ELSE IF "statusCode" \in DOMAIN o THEN <<"statusCode", "message", "error", "timestamp">>
    ELSE <<"message", "error", "status">>

\* the keys JSON.stringify(o) prints: those o has with a value other than undefined
PresentKeys(o) ==
    SelectSeq(MemberKeys(o),
              LAMBDA key : key \in DOMAIN o
                           /\ (key \in {"message", "error", "errors"} => o[key] # Undef))

\* "key":value; the timestamp is a string, as toISOString gives it
JsonMember(o, key) ==
    <<"\"", key, "\":">>
    \o (CASE key \in {"status", "statusCode"} -> Decimal(o[key])
          [] key = "timestamp" -> <<"\"">> \o Decimal(o[key]) \o <<"\"">>
          [] key \in {"path", "method"} -> <<"\"", o[key], "\"">>
          [] OTHER -> JsonStringify(o[key]))

\* JSON.stringify(body) for what getResponse() / getError() returns
JsonBody(body) ==
    IF body.t = "string" THEN <<"\"", body.s, "\"">>
    ELSE <<"{">>
         \o JoinPieces([i \in DOMAIN PresentKeys(body.obj) |->
                           JsonMember(body.obj, PresentKeys(body.obj)[i])], ",")
         \o <<"}">>

\* JSON.stringify(exception) raises a TypeError on an object that refers to itself
JsonStringifyThrows(e) == e.cls = "Cyclic"

\* JSON.stringify(exception) inside a template literal: an Error has no
\* enumerable property of its own; an HttpException has response, status,
\* options (set by BadRequestException, undefined otherwise), message and name;
\* an RpcException has error and message
JsonStringifyException(e) ==
    CASE e.cls = "Null" -> <<"null">>
      [] e.cls \in {"Undefined", "Symbol"} -> <<"undefined">>
      [] e.cls = "String" -> <<"\"", e.message, "\"">>
      [] e.cls \in {"Object", "Error"} -> <<"{}">>
      [] IsHttpException(e) ->
            <<"{\"response\":">> \o JsonBody(e.response)
            \o <<",\"status\":">> \o Decimal(e.status)
            \o (IF IsBadRequestException(e) THEN <<",\"options\":{}">> ELSE <<>>)
            \o <<",\"message\":\"", e.message, "\",\"name\":\"", e.name, "\"}">>
      [] OTHER ->
            <<"{\"error\":">> \o JsonBody(e.error) \o <<",\"message\":\"", e.message, "\"}">>

\* `${exception}` raises a TypeError on a symbol
ToStringThrows(e) == e.cls = "Symbol"

\* `${exception}`: Error.prototype.toString for the errors
TemplateString(e) ==
    CASE e.cls = "Null" -> <<"null">>
      [] e.cls = "Undefined" -> <<"undefined">>
      [] e.cls = "String" -> <<e.message>>
      [] e.cls \in {"Object", "Cyclic"} -> <<"[object Object]">>
      [] OTHER -> IF e.message = "" THEN <<e.name>> ELSE <<e.name, ": ", e.message>>

(* ------------------------------- effects ------------------------------- *)
\* this.logger.error(text, stack)
LoggerError(text, stack) == [e |-> "log", level |-> "error", text |-> text, stack |-> stack]

\* ResponseJson without the call of response.status: the status stays 200
ResponseJsonDefaultStatus(status, body) == [e |-> "response", status |-> 200, body |-> body]

\* response.status(status).json(body)
ResponseJson(status, body) == [e |-> "response", status |-> status, body |-> body]

\* throw exc
Throw(exc) == [e |-> "throw", exc |-> exc]

\* a TypeError raised by the filter's own code, which leaves catch
RaiseTypeError == [e |-> "raise", cls |-> "TypeError"]

\* StackOf that never passes the stack on
StackOfDropped(exception) == Undef

\* exception instanceof Error ? exception.stack : undefined
StackOf(exception) == IF IsError(exception) THEN Str(exception.stack) ELSE Undef

(* --------------------- the fields read off an HttpException ------------ *)
\* typeof exceptionResponse === 'string' ? exceptionResponse
\*                                      : exceptionResponse.message || exception.message
MessageOf(exception) ==
    IF exception.response.t = "string" THEN Str(exception.response.s)
    ELSE OrElse(Prop(exception.response.obj, "message"), Str(exception.message))

\* ErrorOfResponse that never reads exceptionResponse.error
ErrorOfResponseNameOnly(exception) == Str(exception.name)

\* typeof exceptionResponse === 'string' ? exception.name
\*                                      : exceptionResponse.error || exception.name
ErrorOfResponse(exception) ==
    IF exception.response.t = "string" THEN Str(exception.name)
    ELSE OrElse(Prop(exception.response.obj, "error"), Str(exception.name))

\* exception instanceof BadRequestException && Array.isArray(message)
IsValidationError(exception) ==
    IsBadRequestException(exception) /\ IsArray(MessageOf(exception))

\* FinalErrors reporting the first validation message only
FinalErrorsFirstOnly(exception) ==
    IF IsBadRequestException(exception) /\ IsArray(MessageOf(exception))
    THEN Arr([i \in DOMAIN MessageOf(exception).a \cap {1} |-> MessageOf(exception).a[i]])
    ELSE Arr(<<Str(exception.name)>>)

\* isValidationError ? message : [error]
FinalErrors(exception) ==
    IF IsValidationError(exception) THEN MessageOf(exception)
    ELSE Arr(<<ErrorOfResponse(exception)>>)

\* HTTP-only filter: isValidationError ? 'Validation error' : message
FinalMessageHttpOnly(exception) ==
    IF IsValidationError(exception) THEN Str("Validation error") ELSE MessageOf(exception)

\* combined filter:
\* isValidationError ? 'Validation error' : typeof message === 'string' ? message : 'Error'
FinalMessage(exception) ==
    IF IsValidationError(exception) THEN Str("Validation error")
    ELSE IF IsString(MessageOf(exception)) THEN MessageOf(exception)
    ELSE Str("Error")

(* ------------------ HTTP-only filter: ExceptionsFilter.catch ----------- *)
\* the body written for a failure that is no HttpException
HttpOnlyUnhandledBody(request, now) ==
    [statusCode |-> INTERNAL_SERVER_ERROR, timestamp |-> now, path |-> request.url,
     method |-> request.method, message |-> Str("Internal server error"),
     errors |-> Arr(<<Str("Internal Server Error")>>)]

\* the body written for an HttpException
HttpOnlyBody(exception, request, now) ==
    [statusCode |-> exception.status, timestamp |-> now, path |-> request.url,
     method |-> request.method, message |-> FinalMessageHttpOnly(exception),
     errors |-> FinalErrors(exception)]

\* ExceptionCaughtLog with the logger call left out
ExceptionCaughtLogDropped(exception) == <<>>

\* this.logger.error(`Exception caught: ${JSON.stringify(exception)}`)
ExceptionCaughtLog(exception) ==
    <<LoggerError(<<"Exception caught: ">> \o JsonStringifyException(exception), Undef)>>

\* catch(exception, host) of the HTTP-only filter, as the ordered effects of one call
HttpOnlyCatch(exception, request, now) ==
    IF JsonStringifyThrows(exception) THEN <<RaiseTypeError>>
    ELSE LET caught == ExceptionCaughtLog(exception)
         IN  IF ~IsHttpException(exception)
             THEN IF ToStringThrows(exception) THEN caught \o <<RaiseTypeError>>
                  ELSE caught \o
                       <<LoggerError(<<"Unhandled exception: ">> \o TemplateString(exception),
                                     StackOf(exception)),
                         ResponseJson(INTERNAL_SERVER_ERROR, HttpOnlyUnhandledBody(request, now))>>
             ELSE caught \o
                  <<LoggerError(<<"HTTP Exception: [", request.method, "] ", request.url, " - (">>
                                \o Decimal(exception.status) \o <<") - ">>
                                \o JsonStringify(MessageOf(exception)), Undef),
                    ResponseJson(exception.status, HttpOnlyBody(exception, request, now))>>

\* the effects of a call whose response is the RPC context, which has no status
\* method: response.status(...) raises a TypeError where the body would be written
WithoutResponse(t) == [i \in DOMAIN t |-> IF t[i].e = "response" THEN RaiseTypeError ELSE t[i]]

\* catch(exception, host) of the HTTP-only filter in a message-based host:
\* ctx.getRequest() is the data of the message and ctx.getResponse() the RPC
\* context; with no data, reading request.method raises a TypeError
HttpOnlyCatchRpc(exception, data, now) ==
    IF data.k = "undefined" /\ IsHttpException(exception)
    THEN ExceptionCaughtLog(exception) \o <<RaiseTypeError>>
    ELSE WithoutResponse(HttpOnlyCatch(exception, data, now))

(* ------------------ combined filter: ExceptionsFilter ------------------ *)
\* UnhandledPayload with the failure class's status mistaken for BAD_REQUEST
UnhandledPayloadBadRequest(now) ==
    [statusCode |-> BAD_REQUEST, message |-> Str("Internal server error"),
     error |-> Arr(<<Str("Internal Server Error")>>), timestamp |-> now]

\* the payload built for a failure of no known class, in either transport
UnhandledPayload(now) ==
    [statusCode |-> INTERNAL_SERVER_ERROR, message |-> Str("Internal server error"),
     error |-> Arr(<<Str("Internal Server Error")>>), timestamp |-> now]

\* the payload built for an HttpException, in either transport
HttpPayload(exception, now) ==
    [statusCode |-> exception.status, message |-> FinalMessage(exception),
     error |-> FinalErrors(exception), timestamp |-> now]

\* handleHttpException(exception, host)
HandleHttpException(exception, now) ==
    IF ~IsHttpException(exception)
    THEN IF ToStringThrows(exception) THEN <<RaiseTypeError>>
         ELSE <<LoggerError(<<"Unhandled exception: ">> \o TemplateString(exception), StackOf(exception)),
                ResponseJson(INTERNAL_SERVER_ERROR, UnhandledPayload(now))>>
    ELSE <<LoggerError(<<"HTTP Exception: (">> \o Decimal(exception.status) \o <<") - ">>
                       \o JsonStringify(MessageOf(exception)), Undef),
           ResponseJson(exception.status, HttpPayload(exception, now))>>

\* the stack of an exception created inside the filter
FilterStack == "at ExceptionsFilter.handleRpcException"

\* const { status, message } = exception.getError(); new RpcException({ status, message })
CustomRpcException(exception) ==
    RpcExceptionOf("RpcException",
                   ObjectBody([status |-> exception.error.obj.status,
                               message |-> Prop(exception.error.obj, "message")]),
                   FilterStack)

\* handleRpcException(exception, host)
HandleRpcException(exception, now) ==
    IF IsCustomException(exception) THEN <<Throw(CustomRpcException(exception))>>
    ELSE IF IsRpcException(exception) THEN <<Throw(exception)>>
    ELSE IF IsHttpException(exception)
    THEN <<LoggerError(<<"RPC HTTP Exception: (">> \o Decimal(exception.status) \o <<") - ">>
                       \o JsonStringify(MessageOf(exception)), Undef),
           Throw(RpcExceptionOf("RpcException", ObjectBody(HttpPayload(exception, now)), FilterStack))>>
    ELSE IF ToStringThrows(exception) THEN <<RaiseTypeError>>
    ELSE <<LoggerError(<<"Unhandled RPC exception: ">> \o TemplateString(exception), StackOf(exception)),
           Throw(RpcExceptionOf("RpcException", ObjectBody(UnhandledPayload(now)), FilterStack))>>

\* catch(exception, host) of the combined filter: host.getType() picks the handler
CombinedCatch(exception, type, now) ==
    IF type = "http" THEN HandleHttpException(exception, now)
    ELSE HandleRpcException(exception, now)

(* ------------------ older filter: ExceptionsFilter.catch --------------- *)
\* the status written for an RpcException that is no CustomException
LegacyRpcStatus == 400
\* the status written for a failure of no known class
LegacyUnhandledStatus == 500

\* exception.getError() as a value of the body: the string, or the object
RpcErrorValue(exception) ==
    IF exception.error.t = "string" THEN Str(exception.error.s) ELSE ObjVal(exception.error.obj)

\* typeof exceptionResponse === 'string' ? exceptionResponse
\*                                      : exceptionResponse['message'] || 'An error occurred'
LegacyMessageOf(exception) ==
    IF exception.response.t = "string" THEN Str(exception.response.s)
    ELSE OrElse(Prop(exception.response.obj, "message"), Str("An error occurred"))

\* catch(exception, host) of the older filter
LegacyCatch(exception) ==
    IF ToStringThrows(exception) THEN <<RaiseTypeError>>
    ELSE LET caught == LoggerError(<<"Exception caught: ">> \o TemplateString(exception), Undef)
         IN  IF IsCustomException(exception)
             THEN <<caught,
                    ResponseJson(exception.error.obj.status,
                                 [status |-> exception.error.obj.status,
                                  message |-> Prop(exception.error.obj, "message")])>>
             ELSE IF IsRpcException(exception)
             THEN <<caught,
                    ResponseJson(LegacyRpcStatus,
                                 [status |-> LegacyRpcStatus, message |-> RpcErrorValue(exception)])>>
             ELSE IF IsHttpException(exception)
             THEN <<caught,
                    ResponseJson(exception.status,
                                 [status |-> exception.status, message |-> LegacyMessageOf(exception)])>>
             ELSE <<caught,
                    ResponseJson(LegacyUnhandledStatus,
                                 [status |-> LegacyUnhandledStatus,
                                  message |-> Str("Internal server error")])>>

\* the same in a message-based host
LegacyCatchRpc(exception) == WithoutResponse(LegacyCatch(exception))

(* ------------------------------ the system ----------------------------- *)
VARIABLES
    filter,     \* which ExceptionsFilter is registered: "HttpOnly", "Combined" or "Legacy"
    hostType,   \* host.getType(): "http" or "rpc"
    request,    \* ctx.getRequest(): the HTTP request (url, method), or the data of the message
    exception,  \* the failure handed to catch
    clock,      \* what new Date() returns
    pc,         \* "thrown": catch is about to run; "handled": catch has run
    trace,      \* the effects of the last call of catch, in order
    pass,       \* the number of the normalization pass
    prev,       \* the effects of the pass before, <<>> in the first pass
    call,       \* a call of a helper or of an exception's constructor: its name and arguments
    heap,       \* the object handed to the helper, as it is now
    rets        \* what the calls made so far returned or threw, in order

helperVars == <<call, heap, rets>>

vars == <<filter, hostType, request, exception, clock, pc, trace, pass, prev, call, heap, rets>>

\* no helper is called while a filter is at work
NoCall == [op |-> "none"]
NoObject == [k |-> "undefined"]

Requests == {[url |-> "/health", method |-> "GET"], [url |-> "/health/error", method |-> "POST"]}

\* the data of a message: none, or an object that has no url and no method,
\* which a template literal prints as "undefined"
RpcData == {[k |-> "undefined", url |-> "", method |-> ""],
            [k |-> "object", url |-> "undefined", method |-> "undefined"]}

\* what ctx.getRequest() gives in a host of the type
RequestsOf(type) == IF type = "http" THEN Requests ELSE RpcData

Failures == UnclassifiedFailures \cup DomainFailures \cup HttpFailures \cup RpcFailures

\* the effects of catch(exception, host) under the registered filter
Catches(f, e, type, req, now) ==
    IF f = "HttpOnly"
    THEN IF type = "http" THEN HttpOnlyCatch(e, req, now) ELSE HttpOnlyCatchRpc(e, req, now)
    ELSE IF f = "Combined" THEN CombinedCatch(e, type, now)
    ELSE IF type = "http" THEN LegacyCatch(e) ELSE LegacyCatchRpc(e)

\* any filter may be the one app.useGlobalFilters registers, in either host
Init ==
    /\ filter \in {"HttpOnly", "Combined"}
    /\ hostType \in {"http", "rpc"}
    /\ request \in RequestsOf(hostType)
    /\ exception \in Failures
    /\ clock = 0
    /\ pc = "thrown"
    /\ trace = <<>>
    /\ pass = 1
    /\ prev = <<>>
    /\ call = NoCall
    /\ heap = NoObject
    /\ rets = <<>>

\* the framework calls catch(exception, host)
Catch ==
    /\ pc = "thrown"
    /\ trace' = Catches(filter, exception, hostType, request, clock)
    /\ pc' = "handled"
    /\ UNCHANGED <<filter, hostType, request, exception, clock, pass, prev>>
    /\ UNCHANGED helperVars

\* time passes
Tick ==
    /\ clock < MaxClock
    /\ clock' = clock + 1
    /\ UNCHANGED <<filter, hostType, request, exception, pc, trace, pass, prev>>
    /\ UNCHANGED helperVars

\* the effect that ends a call of catch
Last(t) == t[Len(t)]
Delivered(t) == t # <<>> /\ Last(t).e \in {"response", "throw"}

\* what was delivered, as the error native to the transport: the thrown
\* RpcException itself, or an HttpException over the body and status written
AsFailure(d) ==
    IF d.e = "throw" THEN d.exc
    ELSE HttpExceptionOf("HttpException", ObjectBody(d.body), d.status, "at caller")

\* the delivered error is raised again and reaches the same filter
Refeed ==
    /\ pc = "handled"
    /\ pass < MaxPasses
    /\ Delivered(trace)
    /\ exception' = AsFailure(Last(trace))
    /\ prev' = trace
    /\ trace' = <<>>
    /\ pass' = pass + 1
    /\ pc' = "thrown"
    /\ UNCHANGED <<filter, hostType, request, clock>>
    /\ UNCHANGED helperVars

Next == Catch \/ Tick \/ Refeed

Spec == Init /\ [][Next]_vars

\* the same, with the older filter among those that may be registered
InitAll ==
    /\ filter \in {"HttpOnly", "Combined", "Legacy"}
    /\ hostType \in {"http", "rpc"}
    /\ request \in RequestsOf(hostType)
    /\ exception \in Failures
    /\ clock = 0
    /\ pc = "thrown"
    /\ trace = <<>>
    /\ pass = 1
    /\ prev = <<>>
    /\ call = NoCall
    /\ heap = NoObject
    /\ rets = <<>>

SpecAll == InitAll /\ [][Next]_vars

(* ------------------------- reading a delivery -------------------------- *)
\* the log entries of a call, in order
Logs(t) == SelectSeq(t, LAMBDA x : x.e = "log")

\* the object delivered to the caller: the JSON body written, or the error
\* object the thrown RpcException carries (no field when that error is a string)
Payload(t) ==
    IF Last(t).e = "response" THEN Last(t).body
    ELSE IF Last(t).exc.error.t = "object" THEN Last(t).exc.error.obj
    ELSE [none |-> TRUE]

\* the envelope's sequence of details: the HTTP-only filter writes it under
\* errors, the combined filter under error
HasErrors(p) == "errors" \in DOMAIN p \/ "error" \in DOMAIN p
Errors(p) == IF "errors" \in DOMAIN p THEN p.errors ELSE Prop(p, "error")

\* a call of catch has ended by delivering to the caller
Handled == pc = "handled" /\ Delivered(trace)

\* the failure is of no class the filters know
Unclassified(e) == ~IsHttpException(e) /\ ~IsRpcException(e)

\* the message array of a failure whose body carries one, undefined otherwise
BodyMessage(e) ==
    IF IsHttpException(e) /\ e.response.t = "object" THEN Prop(e.response.obj, "message") ELSE Undef

(* -------------------------------- C1 ----------------------------------- *)
\* C1: every envelope delivered for an unclassified failure has statusCode 500,
\* message "Internal server error" and details ["Internal Server Error"]; apart
\* from timestamp it is a fixed record that depends on the filter and the request
\* only, so two failures that differ in message or stack get equal envelopes and
\* the failure's message is in no field.
C1_UnclassifiedEnvelope ==
    (Handled /\ Unclassified(exception)) =>
        LET p == Payload(trace) IN
        /\ "timestamp" \in DOMAIN p
        /\ [p EXCEPT !.timestamp = 0] =
             IF filter = "HttpOnly"
             THEN [statusCode |-> 500, timestamp |-> 0, path |-> request.url,
                   method |-> request.method, message |-> Str("Internal server error"),
                   errors |-> Arr(<<Str("Internal Server Error")>>)]
             ELSE [statusCode |-> 500, message |-> Str("Internal server error"),
                   error |-> Arr(<<Str("Internal Server Error")>>), timestamp |-> 0]
        /\ Errors(p) = Arr(<<Str("Internal Server Error")>>)
        /\ exception.message \in NonEmptyTexts =>
             /\ p.message # Str(exception.message)
             /\ \A i \in DOMAIN Errors(p).a : Errors(p).a[i] # Str(exception.message)

C1_Witness ==
    /\ Handled
    /\ hostType = "rpc"
    /\ exception.cls = "Error"
    /\ exception.message = "This is a test error"
    /\ Len(Logs(trace)) = 1

(* -------------------------------- C2 ----------------------------------- *)
\* C2: a BadRequestException carrying an array of N >= 2 messages is delivered
\* with statusCode 400, message "Validation error" and the N messages, in their
\* order, as the details.
C2_ValidationEnvelope ==
    (/\ Handled
     /\ IsBadRequestException(exception)
     /\ IsArray(BodyMessage(exception))
     /\ Len(BodyMessage(exception).a) >= 2) =>
        LET p == Payload(trace) IN
        /\ p.statusCode = 400
        /\ p.message = Str("Validation error")
        /\ Len(Errors(p).a) = Len(BodyMessage(exception).a)
        /\ \A i \in DOMAIN Errors(p).a : Errors(p).a[i] = BodyMessage(exception).a[i]

C2_Witness ==
    /\ Handled
    /\ IsBadRequestException(exception)
    /\ BodyMessage(exception) = Arr(<<Str("The test field must not be empty"),
                                      Str("The test field must be at least 5 characters long")>>)
    /\ Errors(Payload(trace)).a[2] = Str("The test field must be at least 5 characters long")

(* -------------------------------- C3 ----------------------------------- *)
\* the status and the message a domain exception was constructed with
DomainStatus(e) == IF IsCustomException(e) THEN e.error.obj.status ELSE e.status
DomainMessage(e) == IF IsCustomException(e) THEN e.error.obj.message ELSE Str(e.response.s)
IsDomainException(e) == IsCustomException(e) \/ e.cls = "DisabledException"

\* C3: a domain exception constructed with status S and message M is delivered,
\* in either transport, with statusCode S, message M and details [M].
C3_DomainEnvelope ==
    (Handled /\ IsDomainException(exception)) =>
        LET p == Payload(trace) IN
        /\ "statusCode" \in DOMAIN p
        /\ p.statusCode = DomainStatus(exception)
        /\ p.message = DomainMessage(exception)
        /\ HasErrors(p)
        /\ Errors(p) = Arr(<<DomainMessage(exception)>>)

(* -------------------------------- C4 ----------------------------------- *)
\* C4 as stated: the second pass over the delivered error yields the envelope of
\* the first pass, field for field, in either transport.
C4_Idempotent ==
    (pass >= 2 /\ Handled) => Payload(trace) = Payload(prev)

\* C4 as amended: in the message-based transport the second pass throws the very
\* RpcException of the first pass (every field, timestamp included); in the
\* request/response transport the second pass keeps statusCode and message.
C4_RpcIdempotent ==
    (pass >= 2 /\ Handled) =>
        IF hostType = "rpc" THEN Last(trace) = Last(prev)
        ELSE /\ Payload(trace).statusCode = Payload(prev).statusCode
             /\ Payload(trace).message = Payload(prev).message

C4_Witness ==
    /\ pass = 2
    /\ Handled
    /\ hostType = "rpc"
    /\ "timestamp" \in DOMAIN Payload(prev)
    /\ Payload(trace).timestamp < clock
    /\ Len(Logs(prev)) = 1

(* -------------------------------- C5 ----------------------------------- *)
\* C5: every delivered envelope has a sequence of details with at least one entry.
C5_ErrorsNonEmpty ==
    Handled => (HasErrors(Payload(trace)) /\ Len(Errors(Payload(trace)).a) >= 1)

(* -------------------------------- C6 ----------------------------------- *)
\* the error label of the body when it is there and not empty, else the class name
LabelOrClassName(e) ==
    LET label == IF e.response.t = "object" THEN Prop(e.response.obj, "error") ELSE Undef
    IN  IF label = Undef \/ label = Str("") THEN Str(e.cls) ELSE label

\* C6: a failure whose message is an array is delivered as a
\* validation failure whatever its class, and the envelope's message is always
\* a string.
C6_ArrayIsValidation ==
    Handled =>
        LET p == Payload(trace) IN
        /\ IsArray(BodyMessage(exception)) =>
             /\ p.statusCode = 400
             /\ p.message = Str("Validation error")
             /\ Errors(p) = BodyMessage(exception)
        /\ "message" \in DOMAIN p => IsString(p.message)

(* -------------------------------- C7 ----------------------------------- *)
\* the single string message of an HttpException: its string body, or the string
\* message of its object body
HasSingleMessage(e) ==
    IsHttpException(e) /\ (e.response.t = "string" \/ IsString(BodyMessage(e)))
SingleMessage(e) == IF e.response.t = "string" THEN Str(e.response.s) ELSE BodyMessage(e)

\* C7: an HttpException with a single string message is delivered with its own
\* status, that message, and one detail: the body's error label when present and
\* not empty, else the class name.
C7_SingleMessageEnvelope ==
    (Handled /\ HasSingleMessage(exception)) =>
        LET p == Payload(trace) IN
        /\ p.statusCode = exception.status
        /\ p.message = SingleMessage(exception)
        /\ Errors(p) = Arr(<<LabelOrClassName(exception)>>)

C7_Witness ==
    /\ Handled
    /\ pass = 1
    /\ exception.cls = "BadRequestException"
    /\ BodyMessage(exception) = Str("Resource disabled")
    /\ Errors(Payload(trace)) = Arr(<<Str("Bad Request")>>)

(* -------------------------------- C8 ----------------------------------- *)
\* C8: every call of catch ends by delivering an envelope, and for a failure of
\* no known class (null, undefined, a primitive, a cyclic object among them) that
\* envelope is the 500 one.
C8_Total ==
    pc = "handled" =>
        /\ Delivered(trace)
        /\ Unclassified(exception) => Payload(trace).statusCode = 500

(* -------------------------------- C9 ----------------------------------- *)
\* C9 as stated: every call of catch emits exactly one log entry, before the
\* envelope is delivered.
C9_ExactlyOneLog ==
    pc = "handled" =>
        /\ Len(Logs(trace)) = 1
        /\ Delivered(trace) => \A i \in 1..(Len(trace) - 1) : trace[i].e = "log"

\* the number of log entries of a call that delivers
LogCount(f, type, e) ==
    IF f = "HttpOnly" THEN 2
    ELSE IF type = "rpc" /\ IsRpcException(e) THEN 0
    ELSE 1

\* C9 as amended: no call of catch emits more than two log entries; in a call
\* that delivers, every entry is emitted before the delivery, which is the one
\* last effect, and there are exactly two entries under the HTTP-only filter,
\* none for a CustomException or RpcException in the message-based transport,
\* and one in every other case of the combined filter.
C9_LogsBeforeDelivery ==
    pc = "handled" =>
        /\ Len(Logs(trace)) <= 2
        /\ Delivered(trace) =>
             /\ \A i \in 1..(Len(trace) - 1) : trace[i].e = "log"
             /\ Len(Logs(trace)) = LogCount(filter, hostType, exception)

C9_Witness ==
    /\ Handled
    /\ filter = "HttpOnly"
    /\ Len(trace) = 3
    /\ trace[1].e = "log"
    /\ trace[2].e = "log"
    /\ trace[3].e = "response"

(* -------------------------------- C10 ---------------------------------- *)
\* the severities of the logger, lowest first
Severity(level) == CASE level = "verbose" -> 0
                     [] level = "debug" -> 1
                     [] level = "log" -> 2
                     [] level = "warn" -> 3
                     [] level = "error" -> 4
                     [] OTHER -> 5

IsValidationFailure(e) == IsBadRequestException(e) /\ IsArray(BodyMessage(e))

\* C10 as stated: the entries logged for a domain exception or a validation
\* failure are of a severity strictly below error, the severity an unclassified
\* failure is logged at, with the stack when the failure is an Error.
C10_LowerSeverity ==
    Handled =>
        /\ (IsDomainException(exception) \/ IsValidationFailure(exception)) =>
             \A i \in DOMAIN Logs(trace) : Severity(Logs(trace)[i].level) < Severity("error")
        /\ Unclassified(exception) =>
             \E i \in DOMAIN Logs(trace) :
                /\ Logs(trace)[i].level = "error"
                /\ Logs(trace)[i].stack = (IF IsError(exception) THEN Str(exception.stack) ELSE Undef)

\* the combined filter re-throws the failure in the message-based transport
Rethrown == filter = "Combined" /\ hostType = "rpc" /\ IsRpcException(exception)

\* C10 as amended: every entry the filters log is at error severity. A
\* validation failure, a DisabledException and any other HttpException that is
\* delivered has been logged at that severity, as an unclassified failure is.
\* A CustomException, as any RpcException, is not logged at all where the
\* combined filter re-throws it in the message-based transport, and is logged at
\* error severity everywhere else. A call that delivers the envelope of an
\* unclassified failure has logged it at error severity, with the stack when
\* the failure is an Error and without one otherwise.
C10_ErrorSeverity ==
    pc = "handled" =>
        /\ \A i \in DOMAIN Logs(trace) : Logs(trace)[i].level = "error"
        /\ (Delivered(trace) /\ IsHttpException(exception)) =>
             /\ Logs(trace) # <<>>
             /\ \A i \in DOMAIN Logs(trace) :
                    Severity(Logs(trace)[i].level) = Severity("error")
        /\ IsRpcException(exception) =>
             IF Rethrown THEN Logs(trace) = <<>>
             ELSE /\ Logs(trace) # <<>>
                  /\ Logs(trace)[1].level = "error"
        /\ (Delivered(trace) /\ Unclassified(exception)) =>
             LET entry == Logs(trace)[Len(Logs(trace))] IN
             /\ Len(Logs(trace)) >= 1
             /\ entry.level = "error"
             /\ entry.stack = (IF IsError(exception) THEN Str(exception.stack) ELSE Undef)

\* an unclassified Error logged with its stack
C10_Witness ==
    /\ Handled
    /\ exception.cls = "Error"
    /\ exception.stack = "at b.ts:2"
    /\ \E i \in DOMAIN Logs(trace) : Logs(trace)[i].stack = Str("at b.ts:2")

(* -------------------------------- C11 ---------------------------------- *)
\* the status code a body carries: statusCode in the HTTP-only and the combined
\* filter, status in the older filter
HasStatusField(p) == "statusCode" \in DOMAIN p \/ "status" \in DOMAIN p
StatusField(p) == IF "statusCode" \in DOMAIN p THEN p.statusCode ELSE p.status

\* the effects of a call that are responses written
Responses(t) == SelectSeq(t, LAMBDA x : x.e = "response")

\* C11: whenever a call of catch writes a response, the HTTP status set on it is
\* the status code carried by the JSON body written in that call, and the call
\* writes one response only.
C11_StatusMatchesBody ==
    (pc = "handled" /\ Responses(trace) # <<>>) =>
        /\ Len(Responses(trace)) = 1
        /\ Last(trace).e = "response"
        /\ HasStatusField(Last(trace).body)
        /\ Last(trace).status = StatusField(Last(trace).body)

C11_Witness ==
    /\ pc = "handled"
    /\ filter = "Legacy"
    /\ exception.cls = "RpcException"
    /\ Delivered(trace)
    /\ Last(trace).status = 400
    /\ Last(trace).body.status = 400

(* -------------------------------- C12 ---------------------------------- *)
\* the effects of a call that leave it: a response, a throw, a raised TypeError
Exits(t) == SelectSeq(t, LAMBDA x : x.e \in {"response", "throw", "raise"})

\* C12: every call of the combined filter's catch ends in one delivery through
\* the transport host.getType() names: for 'http' one JSON response and nothing
\* thrown, for any other type an RpcException thrown and no response written.
C12_NativeDelivery ==
    (pc = "handled" /\ filter = "Combined") =>
        /\ Len(Exits(trace)) = 1
        /\ IF hostType = "http" THEN Last(trace).e = "response"
           ELSE Last(trace).e = "throw" /\ Last(trace).exc.cls = "RpcException"

(* -------------------------------- C13 ---------------------------------- *)
\* two payloads carry the same statusCode, message and details
SameEnvelope(p, q) ==
    /\ "statusCode" \in DOMAIN p /\ "statusCode" \in DOMAIN q
    /\ p.statusCode = q.statusCode
    /\ "message" \in DOMAIN p /\ "message" \in DOMAIN q
    /\ p.message = q.message
    /\ HasErrors(p) /\ HasErrors(q)
    /\ Errors(p) = Errors(q)

\* C13: the combined filter delivers, for one failure, the same statusCode,
\* message and details in the request/response and in the message-based
\* transport.
C13_TransportAgnostic ==
    (pc = "handled" /\ filter = "Combined") =>
        LET h == HandleHttpException(exception, clock)
            r == HandleRpcException(exception, clock)
        IN  (Delivered(h) /\ Delivered(r)) => SameEnvelope(Payload(h), Payload(r))

(* -------------------------------- C14 ---------------------------------- *)
\* C14: every payload thrown in the message-based transport has the fields
\* statusCode, message, errors and timestamp, and neither path nor method.
C14_RpcPayloadFields ==
    (Handled /\ hostType = "rpc") =>
        /\ {"statusCode", "message", "errors", "timestamp"} \subseteq DOMAIN Payload(trace)
        /\ "path" \notin DOMAIN Payload(trace)
        /\ "method" \notin DOMAIN Payload(trace)

(* -------------------------------- C15 ---------------------------------- *)
\* C15: every call of catch that delivers puts a timestamp in the envelope, and
\* it is the clock's value during that call.
C15_TimestampOfCall ==
    [][Catch => (Delivered(trace') =>
                    /\ "timestamp" \in DOMAIN Payload(trace')
                    /\ Payload(trace').timestamp = clock)]_vars

(* ===================== helpers and constructors ======================== *)
(* ObjectManipulator (src/src/helpers/object-manipulator.helper.ts) and    *)
(* the constructors of the domain exceptions, each called on arguments     *)
(* drawn by HelperInit.                                                    *)

(* ------------------------------ objects -------------------------------- *)
\* the keys of own properties, and the keys an object inherits from Object.prototype
OwnKeys == {"id", "1", "toString"}
ObjectPrototype == {"toString"}

\* a property: its value, and whether it can be deleted and is enumerated
PropertiesOf(key) ==
    [value : IF key = "id" THEN {"a", "b"} ELSE {"a"}, configurable : BOOLEAN, enumerable : BOOLEAN]

\* an object: its own properties by key, and the keys it inherits
PlainObject(own, proto) == [k |-> "object", own |-> own, proto |-> proto]

\* the property result[key] = value creates
DataProperty(value) == [value |-> value, configurable |-> TRUE, enumerable |-> TRUE]

OwnPropertyMaps ==
    UNION {{f \in [K -> UNION {PropertiesOf(key) : key \in K}] :
                \A key \in K : f[key] \in PropertiesOf(key)} : K \in SUBSET OwnKeys}

Objects == {PlainObject(own, proto) : own \in OwnPropertyMaps, proto \in {ObjectPrototype, {}}}

\* what else may be handed in as obj: null, undefined, a string, a number, a function
NonObjects == {[k |-> kind] : kind \in {"null", "undefined", "string", "number", "function"}}

\* !(!obj || typeof obj !== 'object')
IsObject(obj) == obj.k = "object"

\* a key as the caller writes it: a string or a number
StrKey(s) == [t |-> "string", s |-> s, n |-> 0]
NumKey(n) == [t |-> "number", s |-> "", n |-> n]
KeyArguments == {StrKey("id"), StrKey("1"), NumKey(1), StrKey("toString"), StrKey("missing")}

\* the property key a key argument names: a number names its decimal string
PropertyKey(key) == IF key.t = "number" THEN Digits[key.n + 1] ELSE key.s

\* the keys argument of exclude: an array of keys, or something that is no array
KeyArray(items) == [isArray |-> TRUE, items |-> items]
NotAnArray == [isArray |-> FALSE, items |-> <<>>]
KeysArguments == {KeyArray(q) : q \in SeqsUpTo(KeyArguments, MaxKeys)} \cup {NotAnArray}

\* key in obj
In(key, obj) == PropertyKey(key) \in (DOMAIN obj.own) \cup obj.proto

(* ------------------------ ObjectManipulator.exclude -------------------- *)
\* new Set(keys).has(key), key being the string Object.entries gives: a string
\* equals no number
SetHas(items, entryKey) ==
    \E i \in DOMAIN items : items[i].t = "string" /\ items[i].s = entryKey

\* the keys of Object.entries(obj): own and enumerable
EntryKeys(obj) == {key \in DOMAIN obj.own : obj.own[key].enumerable}

\* a thrown error
Thrown(cls, message) == [outcome |-> "throw", cls |-> cls, message |-> message]

\* exclude(obj, keys)
Exclude(obj, keys) ==
    IF ~IsObject(obj)
    THEN Thrown("TypeError", "Invalid object provided for exclusion. Expected a non-null object.")
    ELSE IF ~keys.isArray
    THEN Thrown("TypeError", "Keys parameter must be an array of property keys.")
    ELSE [outcome |-> "return",
          obj |-> PlainObject([key \in {x \in EntryKeys(obj) : ~SetHas(keys.items, x)} |->
                                  DataProperty(obj.own[key].value)],
                              ObjectPrototype)]

(* ---------------------- ObjectManipulator.safeDelete ------------------- *)
\* what safeDelete returns, and what it writes to the console
Returned(value, console) == [outcome |-> "return", value |-> value, console |-> console]

\* delete obj[key] in strict code: removes an own configurable property, raises a
\* TypeError on an own property that is not configurable, and does nothing for
\* a key the object only inherits
DeleteProperty(obj, key) ==
    LET name == PropertyKey(key) IN
    IF name \notin DOMAIN obj.own THEN [threw |-> FALSE, obj |-> obj]
    ELSE IF ~obj.own[name].configurable THEN [threw |-> TRUE, obj |-> obj]
    ELSE [threw |-> FALSE,
          obj |-> PlainObject([x \in (DOMAIN obj.own) \ {name} |-> obj.own[x]], obj.proto)]

\* safeDelete(obj, key): the value returned and the object afterwards
SafeDelete(obj, key) ==
    IF ~IsObject(obj) THEN [ret |-> Returned(FALSE, "warn"), obj |-> obj]
    ELSE IF ~In(key, obj) THEN [ret |-> Returned(FALSE, "warn"), obj |-> obj]
    ELSE LET d == DeleteProperty(obj, key) IN
         IF d.threw THEN [ret |-> Returned(FALSE, "error"), obj |-> d.obj]
         ELSE [ret |-> Returned(TRUE, "none"), obj |-> d.obj]

(* ----------------------------- the calls ------------------------------- *)
ExcludeCalls ==
    {[op |-> "exclude", obj |-> o, keys |-> ks] : o \in Objects \cup NonObjects, ks \in KeysArguments}

SafeDeleteCalls ==
    {[op |-> "safeDelete", obj |-> o, key |-> key] : o \in Objects \cup NonObjects, key \in KeyArguments}

\* new CustomException(message) / new CustomException(message, status) /
\* new DisabledException() / new DisabledException({ message })
ConstructorCalls ==
    {[op |-> "CustomException", message |-> m, given |-> g, status |-> st] :
        m \in Texts, g \in BOOLEAN, st \in Statuses}
    \cup {[op |-> "DisabledException", message |-> m] : m \in {Undef} \cup {Str(t) : t \in Texts}}

\* the exception a constructor call builds
Constructed(c) ==
    IF c.op = "DisabledException" THEN DisabledException(c.message, "at caller")
    ELSE IF c.given THEN CustomException(c.message, c.status, "at caller")
    ELSE CustomExceptionDefault(c.message, "at caller")

HelperInit ==
    /\ call \in ExcludeCalls \cup SafeDeleteCalls \cup ConstructorCalls
    /\ heap = IF call.op \in {"exclude", "safeDelete"} THEN call.obj ELSE NoObject
    /\ rets = <<>>
    /\ filter = "HttpOnly"
    /\ hostType = "http"
    /\ request = [url |-> "/health", method |-> "GET"]
    /\ exception = NonErrorOf("Undefined", "")
    /\ clock = 0
    /\ pc = "idle"
    /\ trace = <<>>
    /\ pass = 1
    /\ prev = <<>>

filterVars == <<filter, hostType, request, exception, clock, pc, trace, pass, prev>>

\* ObjectManipulator.exclude(obj, keys) is called on the object
ExcludeCall ==
    /\ call.op = "exclude"
    /\ Len(rets) < MaxCalls
    /\ rets' = Append(rets, Exclude(heap, call.keys))
    /\ UNCHANGED <<call, heap>>
    /\ UNCHANGED filterVars

\* ObjectManipulator.safeDelete(obj, key) is called on the object
SafeDeleteCall ==
    /\ call.op = "safeDelete"
    /\ Len(rets) < MaxCalls
    /\ rets' = Append(rets, SafeDelete(heap, call.key).ret)
    /\ heap' = SafeDelete(heap, call.key).obj
    /\ UNCHANGED call
    /\ UNCHANGED filterVars

\* the constructor is called
Construct ==
    /\ call.op \in {"CustomException", "DisabledException"}
    /\ rets = <<>>
    /\ rets' = <<[outcome |-> "return", exc |-> Constructed(call)]>>
    /\ UNCHANGED <<call, heap>>
    /\ UNCHANGED filterVars

HelperNext == ExcludeCall \/ SafeDeleteCall \/ Construct

HelperSpec == HelperInit /\ [][HelperNext]_vars

(* -------------------------------- C16 ---------------------------------- *)
\* a constructor has been called; the exception it built
Built == call.op \in {"CustomException", "DisabledException"} /\ rets # <<>>
BuiltException == rets[1].exc

\* C16 as stated: a domain exception always has a non-empty message; a
\* CustomException built without a status has status 400, and built with one it
\* carries that status and the message given.
C16_NonEmptyMessage ==
    Built =>
        /\ BuiltException.message # ""
        /\ call.op = "CustomException" =>
             /\ BuiltException.error.obj.status = (IF call.given THEN call.status ELSE 400)
             /\ BuiltException.error.obj.message = Str(call.message)

\* C16 as amended: a DisabledException always has a non-empty message (an absent
\* or empty one becomes 'Resource is not available') and status 403; a
\* CustomException carries the message it is given, the empty string included,
\* with status 400 when none is given and the given status otherwise.
C16_DomainConstruction ==
    Built =>
        /\ call.op = "DisabledException" =>
             /\ BuiltException.message # ""
             /\ BuiltException.message =
                  (IF call.message = Undef \/ call.message = Str("")
                   THEN "Resource is not available" ELSE call.message.s)
             /\ BuiltException.response = StringBody(BuiltException.message)
             /\ BuiltException.status = 403
        /\ call.op = "CustomException" =>
             /\ BuiltException.error.obj.status = (IF call.given THEN call.status ELSE 400)
             /\ BuiltException.error.obj.message = Str(call.message)
             /\ BuiltException.message = call.message

C16_Witness ==
    /\ Built
    /\ call.op = "CustomException"
    /\ ~call.given
    /\ call.message = ""
    /\ BuiltException.error.obj.status = 400
    /\ BuiltException.message = ""

(* -------------------------------- C17 ---------------------------------- *)
\* the keys array names the property key
Names(items, propertyKey) == \E i \in DOMAIN items : PropertyKey(items[i]) = propertyKey

\* exclude has been called on an object with an array of keys
Excluded == call.op = "exclude" /\ rets # <<>> /\ IsObject(call.obj) /\ call.keys.isArray

\* C17: exclude(obj, keys) returns a new object whose own enumerable properties
\* are those of obj whose key is not in keys, with the values they have in obj,
\* and leaves obj as it was.
C17_ExcludeFrame ==
    Excluded =>
        /\ rets[1].outcome = "return"
        /\ EntryKeys(rets[1].obj) = {x \in EntryKeys(call.obj) : ~Names(call.keys.items, x)}
        /\ \A x \in EntryKeys(rets[1].obj) : rets[1].obj.own[x].value = call.obj.own[x].value
        /\ heap = call.obj

(* -------------------------------- C18 ---------------------------------- *)
\* C18: called on null, undefined or a value that is no object, safeDelete throws
\* an Error and exclude throws a TypeError; neither returns a value.
C18_InvalidObjectThrows ==
    (call.op \in {"exclude", "safeDelete"} /\ ~IsObject(call.obj)) =>
        \A i \in DOMAIN rets :
            /\ rets[i].outcome = "throw"
            /\ rets[i].cls = (IF call.op = "exclude" THEN "TypeError" ELSE "Error")

(* -------------------------------- C19 ---------------------------------- *)
\* safeDelete has been called on an object
Deleted == call.op = "safeDelete" /\ rets # <<>> /\ IsObject(call.obj)
\* every own property of before but the one named is in after, as it was
OthersUnchanged(before, after, key) ==
    /\ (DOMAIN before.own) \ {PropertyKey(key)} = (DOMAIN after.own) \ {PropertyKey(key)}
    /\ \A x \in (DOMAIN before.own) \ {PropertyKey(key)} : after.own[x] = before.own[x]
    /\ after.proto = before.proto

\* C19: safeDelete returns true exactly when key was in obj; after
\* true key is no longer in obj and the other properties are unchanged, after
\* false obj is unchanged; a second call with the same key returns false.
C19_SafeDeleteFrame ==
    Deleted =>
        /\ rets[1].value = In(call.key, call.obj)
        /\ rets[1].value => (~In(call.key, heap) /\ OthersUnchanged(call.obj, heap, call.key))
        /\ ~rets[1].value => heap = call.obj
        /\ Len(rets) >= 2 => rets[2].value = FALSE

====
